---- MODULE Spec2Model ----
(***************************************************************************)
(* Model of the FIT post-processing scripts server/extract_fit_file.py     *)
(* (parse_fit, add_lap_info, classify_lap_nature_by_speed, export_lap_csv, *)
(* main) and server/extract_fit_file_for_V3.py (parse_fit_records,         *)
(* extract_activity_summary, main).                                        *)
(*                                                                         *)
(* Units.  Every float of the scripts is held as an integer number of      *)
(* hundredths: times in 1/100 s (the decoder yields whole-second           *)
(* timestamps, so every time is a multiple of 100), distances in 1/100 m   *)
(* (the FIT resolution of distance), speeds in 1/100 km/h (the scripts     *)
(* round avg_speed_kmh to 2 decimals).  A lap's raw avg_speed is in        *)
(* 1/1000 m/s (the FIT resolution of avg_speed).                           *)
(***************************************************************************)
EXTENDS Integers, Sequences, FiniteSets, TLC

VARIABLES
    script,     \* which script runs: "v2" (extract_fit_file.py) or "v3"
    argc,       \* len(sys.argv)
    fitExists,  \* whether the .fit file named on the command line exists
    records,    \* the file's 'record' messages, in arrival order
    lapMsgs,    \* the file's 'lap' messages, in arrival order
    hasSession, \* whether the file holds a 'session' message
    pc,         \* position of main (or of the function under study)
    df,         \* the per-sample table
    dfLaps,     \* the per-lap table
    written,    \* the output files written so far
    status,     \* status of the JSON result printed, "none" before
    exitCode,   \* process exit code, once exited
    err         \* the exception that ended the run, "none" otherwise

vars == << script, argc, fitExists, records, lapMsgs, hasSession, pc, df,
           dfLaps, written, status, exitCode, err >>

----------------------------------------------------------------------------
(* Program constants, in hundredths.                                       *)

\* MS_TO_KMH = 3.6, in tenths
MS_TO_KMH == 36
\* PAUSE_TIME_THRESHOLD_S = 10.0 s
PAUSE_TIME_THRESHOLD_S == 1000
\* PAUSE_DISTANCE_THRESHOLD_M = 1.0 m
PAUSE_DISTANCE_THRESHOLD_M == 100
\* INTENSITY_SPEED_THRESHOLD = 17.05 km/h
INTENSITY_SPEED_THRESHOLD == 1705
\* RECOVERY_SPEED_THRESHOLD = 8.65 km/h
RECOVERY_SPEED_THRESHOLD == 865

\* NaN of a float column (pd.to_numeric(errors='coerce'), a missing cell)
NaN == -1
\* a field a message does not carry, or a column a table does not have
Absent == -2
\* the lap_nature of a table that has no lap_nature column
NoColumn == "absent"

LapNature == {"Warm-up", "Intensity", "Recovery", "Cool-down", "Unknown"}

----------------------------------------------------------------------------
(* Bounds of the model.                                                    *)

MaxLaps == 5      \* laps given to the classifier
MaxSamples == 4   \* samples given to the moving-time stage
MaxRecords == 2   \* record messages of a file, and rows given to add_lap_info
MaxLapMsgs == 2   \* lap messages of a file

----------------------------------------------------------------------------
(* Helpers.                                                                *)

IsNum(x) == x # NaN /\ x # Absent

\* comparisons of float cells: any comparison with NaN is False
\* Series > t
Gt(x, t) == IsNum(x) /\ x > t
\* the comparison with a missing speed read as a speed below every threshold
Lt_NaNBelow(x, t) == x # Absent /\ x < t
\* Series < t
Lt(x, t) == IsNum(x) /\ x < t
\* Series.between(lo, hi, inclusive='both')
Between(x, lo, hi) == IsNum(x) /\ x >= lo /\ x <= hi

SetMin(S) == CHOOSE m \in S : \A x \in S : m <= x
SetMax(S) == CHOOSE m \in S : \A x \in S : m >= x

\* all sequences over S of length 0..n
SeqsUpTo(S, n) == UNION { [1..k -> S] : k \in 0..n }

\* round half to even of num/den (num >= 0, den > 0), as np.round does
RoundHalfEven(num, den) ==
    LET q == num \div den
        r == num % den
    IN  IF 2 * r < den THEN q
        ELSE IF 2 * r > den THEN q + 1
        ELSE IF q % 2 = 0 THEN q ELSE q + 1

\* np.round(x, 1) of a time in hundredths of a second
Round1(x) == IF IsNum(x) THEN 10 * RoundHalfEven(x, 10) ELSE x

\* np.round(avg_speed * MS_TO_KMH, 2): avg_speed in 1/1000 m/s, the result in
\* 1/100 km/h; NaN stays NaN
ToKmh(avg_speed) ==
    IF IsNum(avg_speed) THEN RoundHalfEven(avg_speed * MS_TO_KMH, 100) ELSE NaN

----------------------------------------------------------------------------
(* classify_lap_nature_by_speed.  A lap table is a sequence of rows        *)
(* [lap_number, avg_speed_kmh, lap_nature]; row i has pandas index i - 1.  *)
(* Each step below rewrites the lap_nature column as the code does.        *)

Speeds(rows) == [i \in 1..Len(rows) |-> rows[i].avg_speed_kmh]

\* line 43: df_laps['lap_nature'] = 'Unknown'
AllUnknown(s) == [i \in 1..Len(s) |-> "Unknown"]

\* lines 46-47: speed > 17.05 is Intensity
MarkIntensity(s, nat) ==
    [i \in 1..Len(s) |->
        IF Gt(s[i], INTENSITY_SPEED_THRESHOLD) THEN "Intensity" ELSE nat[i]]

\* line 50: the index of the Intensity laps
IntensityIdx(nat) == {i \in 1..Len(nat) : nat[i] = "Intensity"}

\* the warm-up band with both ends exclusive
MarkWarmUp_Open(s, nat, first) ==
    [i \in 1..Len(s) |->
        IF i < first /\ Gt(s[i], RECOVERY_SPEED_THRESHOLD)
                     /\ Lt(s[i], INTENSITY_SPEED_THRESHOLD)
        THEN "Warm-up" ELSE nat[i]]

\* lines 57-59: in-band laps (both ends inclusive) before the first Intensity lap
MarkWarmUp(s, nat, first) ==
    [i \in 1..Len(s) |->
        IF i < first /\ Between(s[i], RECOVERY_SPEED_THRESHOLD, INTENSITY_SPEED_THRESHOLD)
        THEN "Warm-up" ELSE nat[i]]

\* lines 62-64: in-band laps after the last Intensity lap
MarkCoolDown(s, nat, last) ==
    [i \in 1..Len(s) |->
        IF i > last /\ Between(s[i], RECOVERY_SPEED_THRESHOLD, INTENSITY_SPEED_THRESHOLD)
        THEN "Cool-down" ELSE nat[i]]

\* the shift taken in the other direction, shift(-1)
Shift1_Forward(nat) == [i \in 1..Len(nat) |-> IF i = Len(nat) THEN "NaN" ELSE nat[i + 1]]

\* line 69: df_laps['lap_nature'].shift(1); the first cell is NaN
Shift1(nat) == [i \in 1..Len(nat) |-> IF i = 1 THEN "NaN" ELSE nat[i - 1]]

\* lines 71-76: a slow lap whose predecessor (in the snapshot) is Intensity
MarkRecovery(s, nat) ==
    LET prev_lap_nature == Shift1(nat)
    IN  [i \in 1..Len(s) |->
            IF Lt(s[i], RECOVERY_SPEED_THRESHOLD) /\ prev_lap_nature[i] = "Intensity"
            THEN "Recovery" ELSE nat[i]]

\* lines 79-83: what is still Unknown inside [first, last]
FillRemaining(nat, first, last) ==
    [i \in 1..Len(nat) |->
        IF i >= first /\ i <= last /\ nat[i] = "Unknown" THEN "Recovery" ELSE nat[i]]

\* the fill restricted to the warm-up band
NoIntensityFill_Band(s, nat) ==
    [i \in 1..Len(nat) |->
        IF nat[i] = "Unknown"
           /\ Between(s[i], RECOVERY_SPEED_THRESHOLD, INTENSITY_SPEED_THRESHOLD)
        THEN "Warm-up" ELSE nat[i]]

\* lines 87-89: without an Intensity lap every Unknown lap is Warm-up
NoIntensityFill(s, nat) ==
    [i \in 1..Len(nat) |-> IF nat[i] = "Unknown" THEN "Warm-up" ELSE nat[i]]

\* lines 43-91, on the avg_speed_kmh column
ClassifyNatures(s) ==
    LET n1 == MarkIntensity(s, AllUnknown(s))
        intensity_laps == IntensityIdx(n1)
    IN  IF intensity_laps # {}
        THEN LET first_intensity_idx == SetMin(intensity_laps)
                 last_intensity_idx == SetMax(intensity_laps)
                 n2 == MarkWarmUp(s, n1, first_intensity_idx)
                 n3 == MarkCoolDown(s, n2, last_intensity_idx)
                 n4 == MarkRecovery(s, n3)
             IN  FillRemaining(n4, first_intensity_idx, last_intensity_idx)
        ELSE NoIntensityFill(s, n1)

\* whether the table has an avg_speed_kmh column
HasSpeedColumn(rows) == \E i \in 1..Len(rows) : rows[i].avg_speed_kmh # Absent

\* lines 32-91: the whole function, on a lap table
classify_lap_nature_by_speed(rows) ==
    IF rows = << >> \/ ~HasSpeedColumn(rows)
    THEN [i \in 1..Len(rows) |->
            [rows[i] EXCEPT !.lap_nature =
                IF rows[i].lap_nature = NoColumn THEN "Unknown" ELSE rows[i].lap_nature]]
    ELSE LET nat == ClassifyNatures(Speeds(rows))
         IN  [i \in 1..Len(rows) |-> [rows[i] EXCEPT !.lap_nature = nat[i]]]

----------------------------------------------------------------------------
(* The per-sample table: a sequence of rows [timestamp, distance,          *)
(* elapsed_time_s, moving_elapsed_time_s, lap_number, lap_nature], sorted  *)
(* by timestamp.  A column the table does not have holds Absent (NoColumn  *)
(* for lap_nature) in every row; a cell missing from a column that exists  *)
(* holds NaN.                                                              *)

HasDistanceColumn(rows) == \E i \in 1..Len(rows) : rows[i].distance # Absent
HasElapsedColumn(rows) == \E i \in 1..Len(rows) : rows[i].elapsed_time_s # Absent
HasMovingColumn(rows) == \E i \in 1..Len(rows) : rows[i].moving_elapsed_time_s # Absent

\* df['elapsed_time_s'].diff(): NaN for the first row
Dt(rows, i) == IF i = 1 THEN NaN ELSE rows[i].elapsed_time_s - rows[i - 1].elapsed_time_s

\* df['distance'].diff().fillna(0): a difference with a missing cell is NaN, filled with 0
Dd(rows, i) ==
    IF i = 1 \/ ~IsNum(rows[i].distance) \/ ~IsNum(rows[i - 1].distance)
    THEN 0
    ELSE rows[i].distance - rows[i - 1].distance

\* the pause test with the time threshold exclusive
IsBreakReal_Strict(rows, i) ==
    /\ i > 1
    /\ Dt(rows, i) > PAUSE_TIME_THRESHOLD_S
    /\ Dd(rows, i) <= PAUSE_DISTANCE_THRESHOLD_M

\* the pause test without its time threshold
IsBreakReal_NoTime(rows, i) ==
    /\ i > 1
    /\ Dd(rows, i) <= PAUSE_DISTANCE_THRESHOLD_M

\* v2 line 144, v3 line 89: (dt >= 10.0) & (dd <= 1.0); NaN >= 10.0 is False
IsBreakReal(rows, i) ==
    /\ i > 1
    /\ Dt(rows, i) >= PAUSE_TIME_THRESHOLD_S
    /\ Dd(rows, i) <= PAUSE_DISTANCE_THRESHOLD_M

\* the correction with the second of sampling latency added instead of kept
PauseCorrection_Plus(rows, i) ==
    IF i = 1 THEN 0
    ELSE IF IsBreakReal(rows, i) THEN Dt(rows, i) + 100 ELSE 0

\* v2 lines 146-147, v3 lines 92-93: np.where(is_break_real, dt - 1.0, 0.0), row 0 set to 0.0
PauseCorrection(rows, i) ==
    IF i = 1 THEN 0
    ELSE IF IsBreakReal(rows, i) THEN Dt(rows, i) - 100 ELSE 0

\* v2 line 149, v3 line 95: cumsum()
RECURSIVE CumulativePause(_, _)
CumulativePause(rows, i) ==
    IF i = 0 THEN 0 ELSE CumulativePause(rows, i - 1) + PauseCorrection(rows, i)

\* v2 lines 140-154, v3 lines 83-101: the moving-time stage
MovingTimeStage(rows) ==
    IF HasElapsedColumn(rows) /\ HasDistanceColumn(rows)
    THEN [i \in 1..Len(rows) |->
            [rows[i] EXCEPT !.moving_elapsed_time_s =
                Round1(rows[i].elapsed_time_s - CumulativePause(rows, i))]]
    ELSE rows

----------------------------------------------------------------------------
(* add_lap_info.  A lap message is [start_time, avg_speed]; start_time is  *)
(* Absent when the message has no usable start_time, avg_speed is Absent   *)
(* when the message has no avg_speed field and NaN when it cannot be       *)
(* parsed as a number.                                                     *)

\* the fallback leaving lap_number at its initial 0
SingleLap_Zero(rows) ==
    [i \in 1..Len(rows) |-> [rows[i] EXCEPT !.lap_number = 0, !.lap_nature = "Unknown"]]

\* lines 187-188, 201-202, 210-211: df['lap_number'] = 1; df['lap_nature'] = 'Unknown'
SingleLap(rows) ==
    [i \in 1..Len(rows) |-> [rows[i] EXCEPT !.lap_number = 1, !.lap_nature = "Unknown"]]

\* line 205: the laps that carry a usable start_time, in arrival order
RECURSIVE WithStartTime(_)
WithStartTime(laps) ==
    IF laps = << >> THEN << >>
    ELSE IF Head(laps).start_time # Absent
         THEN << Head(laps) >> \o WithStartTime(Tail(laps))
         ELSE WithStartTime(Tail(laps))

\* one step of a stable sort: x goes after every element whose key is <= its own
InsertByStart(sorted, x) ==
    LET k == Cardinality({i \in 1..Len(sorted) : sorted[i].start_time <= x.start_time})
    IN  SubSeq(sorted, 1, k) \o << x >> \o SubSeq(sorted, k + 1, Len(sorted))

\* the laps left in arrival order
SortByStartTime_Unsorted(laps) == laps

\* lines 205-206: sorted(..., key=start_time), a stable sort
RECURSIVE SortByStartTime(_)
SortByStartTime(laps) ==
    IF laps = << >> THEN << >>
    ELSE InsertByStart(SortByStartTime(SubSeq(laps, 1, Len(laps) - 1)), laps[Len(laps)])

MaxTimestamp(rows) == SetMax({rows[i].timestamp : i \in 1..Len(rows)})

\* lines 221-224: the next lap's start, or max(timestamp) + 1 second for the last lap
NextLapStart(laps_sorted, lap_num, rows) ==
    IF lap_num < Len(laps_sorted)
    THEN laps_sorted[lap_num + 1].start_time
    ELSE MaxTimestamp(rows) + 100

\* lines 226-227: one iteration of the loop, on the lap_number column
AssignLap(laps_sorted, lap_num, rows, lap_number) ==
    [i \in 1..Len(rows) |->
        IF /\ rows[i].timestamp >= laps_sorted[lap_num].start_time
           /\ rows[i].timestamp < NextLapStart(laps_sorted, lap_num, rows)
        THEN lap_num ELSE lap_number[i]]

\* lines 214-227: lap_number = 0, then the loop over laps 1..lap_num
RECURSIVE AssignLaps(_, _, _)
AssignLaps(laps_sorted, lap_num, rows) ==
    IF lap_num = 0 THEN [i \in 1..Len(rows) |-> 0]
    ELSE AssignLap(laps_sorted, lap_num, rows, AssignLaps(laps_sorted, lap_num - 1, rows))

\* line 229: the samples no interval matched go to the last lap
FallbackToLast(laps_sorted, lap_number) ==
    [i \in 1..Len(lap_number) |->
        IF lap_number[i] = 0 THEN Len(laps_sorted) ELSE lap_number[i]]

\* lines 214-229: the lap_number column
LapNumbers(laps_sorted, rows) ==
    FallbackToLast(laps_sorted, AssignLaps(laps_sorted, Len(laps_sorted), rows))

\* whether pd.DataFrame(laps) has an avg_speed column
HasAvgSpeed(laps) == \E i \in 1..Len(laps) : laps[i].avg_speed # Absent

\* lines 235-244: the lap summary of the sorted laps, numbered 1..N and classified
LapSummary(laps_sorted) ==
    classify_lap_nature_by_speed(
        [k \in 1..Len(laps_sorted) |->
            [lap_number |-> k,
             avg_speed_kmh |-> ToKmh(laps_sorted[k].avg_speed),
             lap_nature |-> NoColumn]])

\* lines 247-252: left merge on lap_number, then fillna('Unknown')
MergedNature(summary, lap_number) ==
    LET hit == {k \in 1..Len(summary) : summary[k].lap_number = lap_number}
    IN  IF hit = {} THEN "Unknown" ELSE summary[CHOOSE k \in hit : TRUE].lap_nature

\* lines 179-257
add_lap_info(laps, rows) ==
    IF rows = << >> THEN rows
    ELSE IF laps = << >> THEN SingleLap(rows)
    ELSE LET laps_sorted == SortByStartTime(WithStartTime(laps))
         IN  IF laps_sorted = << >> THEN SingleLap(rows)
             ELSE LET lap_number == LapNumbers(laps_sorted, rows)
                      summary == LapSummary(laps_sorted)
                  IN  [i \in 1..Len(rows) |->
                        [rows[i] EXCEPT
                            !.lap_number = lap_number[i],
                            !.lap_nature =
                                IF HasAvgSpeed(laps_sorted)
                                THEN MergedNature(summary, lap_number[i])
                                ELSE "Unknown"]]

----------------------------------------------------------------------------
(* Building the per-sample table.  A record message is [timestamp,         *)
(* distance]; distance is Absent when the message has no distance field.   *)

\* pd.DataFrame(rows): the distance column exists when some message has the
\* field, and then the messages without it hold NaN
DistanceCell(recs, i) ==
    IF \A j \in 1..Len(recs) : recs[j].distance = Absent THEN Absent
    ELSE IF recs[i].distance = Absent THEN NaN
    ELSE recs[i].distance

\* v2 lines 110-116: the table of the records `recs`, already in timestamp order
SampleTable(recs) ==
    [i \in 1..Len(recs) |->
        [timestamp |-> recs[i].timestamp,
         distance |-> DistanceCell(recs, i),
         elapsed_time_s |-> recs[i].timestamp - recs[1].timestamp,
         moving_elapsed_time_s |-> Absent,
         lap_number |-> Absent,
         lap_nature |-> NoColumn]]

IsSortedByTimestamp(recs) ==
    \A i \in 1..Len(recs) : \A j \in 1..Len(recs) :
        i < j => recs[i].timestamp <= recs[j].timestamp

\* sort_values('timestamp'): every ordering of the records that is sorted by
\* timestamp (the order of records with equal timestamps is the sort's choice)
SortedOrders(recs) ==
    LET n == Len(recs)
        perms == {p \in [1..n -> 1..n] : \A i \in 1..n : \E j \in 1..n : p[j] = i}
    IN  {s \in {[i \in 1..n |-> recs[p[i]]] : p \in perms} : IsSortedByTimestamp(s)}

\* a lap table with the given avg_speed_kmh column and no lap_nature yet
LapTable(s) ==
    [i \in 1..Len(s) |-> [lap_number |-> i, avg_speed_kmh |-> s[i], lap_nature |-> NoColumn]]

----------------------------------------------------------------------------
(* Input values.                                                           *)

\* avg_speed_kmh cells: below, at and above both thresholds, and NaN
SpeedVals == {500, 600, 865, 900, 1000, 1705, 1800, NaN}
\* the lap scenario of the specification: 5.0, 10.0, 18.0, 6.0, 9.0 km/h
ExampleSpeeds == << 500, 1000, 1800, 600, 900 >>

\* timestamps of the samples given to the moving-time stage: gaps of 0, 2, 5,
\* 10, 12, 15 s and more
ElapsedVals == {0, 500, 2000, 2200, 3200}
\* their distance field: differences of 0, 1 m, 19 m, 50 m and negative ones
DistVals == {0, 5000, 5100, 7000, Absent}
\* the sample scenario of the specification
ExampleRecords ==
    << [timestamp |-> 0, distance |-> 0], [timestamp |-> 500, distance |-> 5000],
       [timestamp |-> 2000, distance |-> 5100], [timestamp |-> 2200, distance |-> 7000] >>

\* timestamps of samples and start times of laps given to add_lap_info
SampleTimes == {0, 500, 1000, 2000}
StartTimes == {500, 1000, 2000, Absent}
\* raw avg_speed of a lap: 10.0 km/h, 18.0 km/h, unparseable, no field
AvgSpeedVals == {2778, 5000, NaN, Absent}

SortedRecordSeqs(times, dists, lo, hi) ==
    UNION { {r \in [1..k -> [timestamp : times, distance : dists]] : IsSortedByTimestamp(r)}
            : k \in lo..hi }

LapMsgSeqs(starts, speeds, n) == SeqsUpTo([start_time : starts, avg_speed : speeds], n)

----------------------------------------------------------------------------
(* Specifications of the three stages taken alone: Init draws the stage's  *)
(* input, the action applies the stage.                                    *)

Idle(p) ==
    /\ pc = p
    /\ script = "v2" /\ argc = 3 /\ fitExists = TRUE /\ hasSession = FALSE
    /\ written = {} /\ status = "none" /\ exitCode = Absent /\ err = "none"

InitClassify ==
    /\ Idle("classify")
    /\ records = << >> /\ lapMsgs = << >> /\ df = << >>
    /\ dfLaps \in {LapTable(s) : s \in SeqsUpTo(SpeedVals, MaxLaps) \cup {ExampleSpeeds}}
                    \cup {LapTable([i \in 1..k |-> Absent]) : k \in 1..MaxLaps}

ClassifyLaps ==
    /\ pc = "classify"
    /\ dfLaps' = classify_lap_nature_by_speed(dfLaps)
    /\ pc' = "classified"
    /\ UNCHANGED << script, argc, fitExists, records, lapMsgs, hasSession, df,
                    written, status, exitCode, err >>

NextClassify == ClassifyLaps

SpecClassify == InitClassify /\ [][NextClassify]_vars

InitMoving ==
    /\ Idle("moving")
    /\ records = << >> /\ lapMsgs = << >> /\ dfLaps = << >>
    /\ df \in {SampleTable(r) :
                r \in {q \in SortedRecordSeqs(ElapsedVals, DistVals, 1, MaxSamples) :
                            q[1].timestamp = 0} \cup {ExampleRecords}}

MovingTime ==
    /\ pc = "moving"
    /\ df' = MovingTimeStage(df)
    /\ pc' = "moved"
    /\ UNCHANGED << script, argc, fitExists, records, lapMsgs, hasSession, dfLaps,
                    written, status, exitCode, err >>

NextMoving == MovingTime

SpecMoving == InitMoving /\ [][NextMoving]_vars

InitLapInfo ==
    /\ Idle("lap_info")
    /\ records = << >> /\ dfLaps = << >>
    /\ df \in {SampleTable(r) :
                r \in SortedRecordSeqs(SampleTimes, {Absent}, 0, MaxRecords)}
    /\ lapMsgs \in LapMsgSeqs(StartTimes, AvgSpeedVals, MaxLapMsgs)

AddLapInfo ==
    /\ pc = "lap_info"
    /\ df' = add_lap_info(lapMsgs, df)
    /\ pc' = "lap_info_done"
    /\ UNCHANGED << script, argc, fitExists, records, lapMsgs, hasSession, dfLaps,
                    written, status, exitCode, err >>

NextLapInfo == AddLapInfo

SpecLapInfo == InitLapInfo /\ [][NextLapInfo]_vars

----------------------------------------------------------------------------
(* Claims about classify_lap_nature_by_speed, under SpecClassify.          *)

Natures(rows) == [i \in 1..Len(rows) |-> rows[i].lap_nature]

\* the positions whose speed is above 17.05 km/h
FastLaps(s) == {j \in 1..Len(s) : s[j] # NaN /\ s[j] > 1705}
InBand(x) == x # NaN /\ 865 <= x /\ x <= 1705

\* the label steps 1-8 of the specification give lap i of the speeds s
RuleLabel(s, i) ==
    IF i \in FastLaps(s) THEN "Intensity"
    ELSE IF FastLaps(s) = {} THEN "Warm-up"
    ELSE LET first == SetMin(FastLaps(s))
             last == SetMax(FastLaps(s))
         IN  IF i < first /\ InBand(s[i]) THEN "Warm-up"
             ELSE IF i > last /\ InBand(s[i]) THEN "Cool-down"
             ELSE IF s[i] # NaN /\ s[i] < 865 /\ (i - 1) \in FastLaps(s) THEN "Recovery"
             ELSE IF first <= i /\ i <= last THEN "Recovery"
             ELSE "Unknown"

\* C1: for every sequence of laps with an avg_speed_kmh, the classifier returns
\* exactly the labels of steps 1-8 (Intensity iff speed > 17.05; Warm-up and
\* Cool-down for the in-band laps before the first and after the last Intensity
\* lap; Recovery for a slow lap right after an Intensity lap and for every other
\* lap inside [first, last]; Unknown for the rest), and the speeds
\* [5.0, 10.0, 18.0, 6.0, 9.0] give [Unknown, Warm-up, Intensity, Recovery, Cool-down].
C1_ClassifierFollowsRules ==
    (pc = "classified" /\ HasSpeedColumn(dfLaps)) =>
        /\ \A i \in 1..Len(dfLaps) :
              dfLaps[i].lap_nature = RuleLabel(Speeds(dfLaps), i)
        /\ Speeds(dfLaps) = ExampleSpeeds =>
              Natures(dfLaps) =
                << "Unknown", "Warm-up", "Intensity", "Recovery", "Cool-down" >>

C1_Witness ==
    /\ pc = "classified"
    /\ Speeds(dfLaps) = ExampleSpeeds
    /\ Natures(dfLaps) = << "Unknown", "Warm-up", "Intensity", "Recovery", "Cool-down" >>

\* C2: when every lap's avg_speed_kmh is <= 17.05, every lap is Warm-up after
\* classification, whatever the speeds are (also below 8.65).
C2_NoIntensityAllWarmUp ==
    (/\ pc = "classified"
     /\ \A i \in 1..Len(dfLaps) :
            IsNum(dfLaps[i].avg_speed_kmh) /\ dfLaps[i].avg_speed_kmh <= 1705) =>
        \A i \in 1..Len(dfLaps) : dfLaps[i].lap_nature = "Warm-up"

C2_Witness ==
    /\ pc = "classified"
    /\ Len(dfLaps) >= 2
    /\ \A i \in 1..Len(dfLaps) :
            IsNum(dfLaps[i].avg_speed_kmh) /\ dfLaps[i].avg_speed_kmh <= 1705
    /\ \E i \in 1..Len(dfLaps) : dfLaps[i].avg_speed_kmh < 865
    /\ \E i \in 1..Len(dfLaps) : dfLaps[i].avg_speed_kmh = 1705
    /\ \A i \in 1..Len(dfLaps) : dfLaps[i].lap_nature = "Warm-up"

----------------------------------------------------------------------------
(* Claims about the moving-time stage, under SpecMoving.                   *)

Elapsed(rows) == [i \in 1..Len(rows) |-> rows[i].elapsed_time_s]
Moving(rows) == [i \in 1..Len(rows) |-> rows[i].moving_elapsed_time_s]
Distances(rows) == [i \in 1..Len(rows) |-> rows[i].distance]

AllHaveDistance(rows) == \A i \in 1..Len(rows) : IsNum(rows[i].distance)

\* sample j > 1 is a pause: dt >= 10 s and dd <= 1 m
PausedAt(rows, j) ==
    /\ rows[j].elapsed_time_s - rows[j - 1].elapsed_time_s >= 1000
    /\ rows[j].distance - rows[j - 1].distance <= 100

\* the sum over j in 2..i of the claimed pause correction, dt[j] - 1 s at a pause
RECURSIVE ClaimedPause(_, _)
ClaimedPause(rows, i) ==
    IF i <= 1 THEN 0
    ELSE ClaimedPause(rows, i - 1)
         + (IF PausedAt(rows, i)
            THEN rows[i].elapsed_time_s - rows[i - 1].elapsed_time_s - 100
            ELSE 0)

\* C3: for samples that all have a distance, moving_elapsed_time_s[i] is
\* elapsed_time_s[i] minus the sum over j in 1..i of the pause correction, which
\* is dt[j] - 1.0 exactly when dt[j] >= 10.0 and dd[j] <= 1.0 and 0 otherwise (0
\* for sample 0); elapsed [0, 5, 20, 22] with distance [0, 50, 51, 70] gives
\* moving time [0, 5, 6, 8].
C3_MovingTimeFormula ==
    (pc = "moved" /\ AllHaveDistance(df)) =>
        /\ \A i \in 1..Len(df) :
              df[i].moving_elapsed_time_s = df[i].elapsed_time_s - ClaimedPause(df, i)
        /\ (Elapsed(df) = << 0, 500, 2000, 2200 >>
                /\ Distances(df) = << 0, 5000, 5100, 7000 >>) =>
              Moving(df) = << 0, 500, 600, 800 >>

C3_Witness ==
    /\ pc = "moved"
    /\ Elapsed(df) = << 0, 500, 2000, 2200 >>
    /\ Distances(df) = << 0, 5000, 5100, 7000 >>
    /\ Moving(df) = << 0, 500, 600, 800 >>

\* the pause discounted up to sample i
Discount(rows, i) == rows[i].elapsed_time_s - rows[i].moving_elapsed_time_s

\* C4: for every sample sequence the discounted pause elapsed - moving is 0 at
\* the first sample and never decreases with i, so moving <= elapsed at every
\* sample and the first sample's moving time equals its elapsed time.
C4_DiscountMonotone ==
    (pc = "moved" /\ HasMovingColumn(df)) =>
        /\ Discount(df, 1) = 0
        /\ df[1].moving_elapsed_time_s = df[1].elapsed_time_s
        /\ \A i \in 2..Len(df) : Discount(df, i) >= Discount(df, i - 1)
        /\ \A i \in 1..Len(df) : df[i].moving_elapsed_time_s <= df[i].elapsed_time_s

C4_Witness ==
    /\ pc = "moved"
    /\ HasMovingColumn(df)
    /\ Len(df) >= 3
    /\ Discount(df, 1) = 0
    /\ Discount(df, 2) > 0
    /\ Discount(df, Len(df)) > Discount(df, 2)

\* C5: moving_elapsed_time_s is non-decreasing across the sorted samples, also
\* across a detected pause, where it advances by exactly 1 second, and across
\* consecutive pauses.
C5_MovingTimeMonotone ==
    (pc = "moved" /\ HasMovingColumn(df)) =>
        \A i \in 2..Len(df) :
            /\ df[i].moving_elapsed_time_s >= df[i - 1].moving_elapsed_time_s
            /\ (IsNum(df[i].distance) /\ IsNum(df[i - 1].distance) /\ PausedAt(df, i)) =>
                  df[i].moving_elapsed_time_s = df[i - 1].moving_elapsed_time_s + 100

C5_Witness ==
    /\ pc = "moved"
    /\ AllHaveDistance(df)
    /\ \E i \in 2..(Len(df) - 1) :
          /\ PausedAt(df, i) /\ PausedAt(df, i + 1)
          /\ df[i].moving_elapsed_time_s = df[i - 1].moving_elapsed_time_s + 100
          /\ df[i + 1].moving_elapsed_time_s = df[i].moving_elapsed_time_s + 100

----------------------------------------------------------------------------
(* Claims about add_lap_info, under SpecLapInfo.                           *)

\* the usable start times, sorted ascending: the N laps of the specification
UsableStarts(laps) ==
    LET idx == {i \in 1..Len(laps) : laps[i].start_time # Absent}
        n == Cardinality(idx)
    IN  CHOOSE st \in [1..n -> {laps[i].start_time : i \in idx}] :
            /\ \A a \in 1..n : \A b \in 1..n : a < b => st[a] <= st[b]
            /\ \A v \in {laps[i].start_time : i \in idx} :
                    Cardinality({a \in 1..n : st[a] = v})
                        = Cardinality({i \in idx : laps[i].start_time = v})

\* the lap that owns timestamp ts: lap k < N when start[k] <= ts < start[k+1],
\* lap N otherwise (from its start on, and as the fallback)
Owner(st, ts) ==
    LET inner == {k \in 1..(Len(st) - 1) : st[k] <= ts /\ ts < st[k + 1]}
    IN  IF inner # {} THEN CHOOSE k \in inner : TRUE ELSE Len(st)

\* C6: with N >= 1 laps having a usable start_time, every sample gets exactly one
\* lap_number in 1..N: lap k owns the samples with start[k] <= timestamp <
\* start[k+1], the last lap owns the samples from its start up to the latest one,
\* a sample in no interval gets lap N, and no sample keeps lap_number 0.
C6_LapOwnership ==
    (pc = "lap_info_done" /\ Len(UsableStarts(lapMsgs)) >= 1) =>
        \A i \in 1..Len(df) :
            /\ df[i].lap_number \in 1..Len(UsableStarts(lapMsgs))
            /\ df[i].lap_number = Owner(UsableStarts(lapMsgs), df[i].timestamp)

C6_Witness ==
    /\ pc = "lap_info_done"
    /\ Len(UsableStarts(lapMsgs)) = 2
    /\ \E i \in 1..Len(df) :
          /\ UsableStarts(lapMsgs)[1] <= df[i].timestamp
          /\ df[i].timestamp < UsableStarts(lapMsgs)[2]
          /\ df[i].lap_number = 1
    /\ \E i \in 1..Len(df) :
          /\ UsableStarts(lapMsgs)[2] <= df[i].timestamp
          /\ df[i].lap_number = 2

\* C7: after add_lap_info lap_number is non-decreasing across the samples in
\* timestamp order, for every set of lap start times and sample timestamps
\* (also for samples earlier than the first lap's start_time).
C7_LapNumberMonotone ==
    (pc = "lap_info_done" /\ Len(UsableStarts(lapMsgs)) >= 1) =>
        \A a \in 1..Len(df) : \A b \in 1..Len(df) :
            df[a].timestamp <= df[b].timestamp => df[a].lap_number <= df[b].lap_number

\* C8: with zero laps, or no lap with a usable start_time, add_lap_info raises no
\* error and gives every sample lap_number 1 and lap_nature Unknown.
C8_NoLapsSingleLap ==
    (pc = "lap_info_done" /\ \A k \in 1..Len(lapMsgs) : lapMsgs[k].start_time = Absent) =>
        /\ err = "none"
        /\ \A i \in 1..Len(df) :
              df[i].lap_number = 1 /\ df[i].lap_nature = "Unknown"

C8_Witness ==
    /\ pc = "lap_info_done"
    /\ err = "none"
    /\ Len(df) >= 2
    /\ Len(lapMsgs) >= 1
    /\ \A k \in 1..Len(lapMsgs) : lapMsgs[k].start_time = Absent
    /\ \E k \in 1..Len(lapMsgs) : lapMsgs[k].avg_speed = 5000
    /\ \A i \in 1..Len(df) : df[i].lap_number = 1 /\ df[i].lap_nature = "Unknown"

----------------------------------------------------------------------------
(* The two scripts, from the command line to the exit code.                *)

\* the empty-input test never taken
NoRecords_Never(recs) == FALSE

\* v2 line 107, v3 line 53: if not rows
NoRecords(recs) == recs = << >>

\* v2 lines 110-154, on records already sorted: the table before line 157
ParseFitTable(sorted, laps) == MovingTimeStage(add_lap_info(laps, SampleTable(sorted)))

\* v2 lines 157-158: df['moving_elapsed_time_s'] is read whenever elapsed_time_s
\* exists, and raises KeyError when the moving-time stage was skipped
FormatRaisesKeyError(rows) == HasElapsedColumn(rows) /\ ~HasMovingColumn(rows)

\* v3 lines 56-101: the table of parse_fit_records (elapsed_time_s rounded, no laps)
ParseFitRecordsTable(sorted) ==
    LET t == SampleTable(sorted)
    IN  MovingTimeStage(
            [i \in 1..Len(t) |-> [t[i] EXCEPT !.elapsed_time_s = Round1(t[i].elapsed_time_s)]])

\* v2 lines 271-296: the per-lap table of export_lap_csv, the laps numbered in
\* arrival order; << >> when the function returns None
ExportLapTable(laps) ==
    LET numbered ==
            [k \in 1..Len(laps) |->
                [lap_number |-> k,
                 avg_speed_kmh |->
                    IF HasAvgSpeed(laps) THEN ToKmh(laps[k].avg_speed) ELSE Absent,
                 lap_nature |-> NoColumn]]
    IN  IF laps = << >> THEN << >>
        ELSE IF HasAvgSpeed(laps) THEN classify_lap_nature_by_speed(numbered)
        ELSE numbered

\* timestamps and distance fields of a file's records, start times and raw
\* avg_speed of its laps
RecordTimes == {0, 500, 2000}
RecordDists == {0, Absent}
LapStarts == {500, 2000, Absent}
LapSpeeds == {2778, 5000, Absent}

Init ==
    /\ script \in {"v2", "v3"}
    /\ argc \in {2, 3}
    /\ fitExists \in BOOLEAN
    /\ records \in SeqsUpTo([timestamp : RecordTimes, distance : RecordDists], MaxRecords)
    /\ lapMsgs \in LapMsgSeqs(LapStarts, LapSpeeds, MaxLapMsgs)
    /\ hasSession \in BOOLEAN
    \* a file that is not read has no content; v3 reads no lap, v2 no session
    /\ (argc < 3 \/ ~fitExists) => (records = << >> /\ lapMsgs = << >> /\ ~hasSession)
    /\ script = "v3" => lapMsgs = << >>
    /\ script = "v2" => ~hasSession
    /\ pc = "start"
    /\ df = << >>
    /\ dfLaps = << >>
    /\ written = {}
    /\ status = "none"
    /\ exitCode = Absent
    /\ err = "none"

\* an except clause of main: print the error result, sys.exit(1)
Fail(e) ==
    /\ err' = e
    /\ status' = "error"
    /\ exitCode' = 1
    /\ pc' = "exited"

\* v2 lines 345-349, v3 lines 179-182
Usage ==
    /\ pc = "start"
    /\ argc < 3
    /\ Fail("none")
    /\ UNCHANGED << script, argc, fitExists, records, lapMsgs, hasSession, df, dfLaps, written >>

\* v2 line 360, v3 lines 192-195: FitFile(path) opens the file
OpenFit ==
    /\ pc = "start"
    /\ argc >= 3
    /\ IF fitExists
       THEN pc' = "opened" /\ UNCHANGED << err, status, exitCode >>
       ELSE Fail("FileNotFoundError")
    /\ UNCHANGED << script, argc, fitExists, records, lapMsgs, hasSession, df, dfLaps, written >>

\* v2 line 363: parse_fit(ff)
ParseFit ==
    /\ pc = "opened"
    /\ script = "v2"
    /\ IF NoRecords(records)
       THEN Fail("RuntimeError") /\ UNCHANGED df
       ELSE \E sorted \in SortedOrders(records) :
               IF FormatRaisesKeyError(ParseFitTable(sorted, lapMsgs))
               THEN Fail("KeyError") /\ UNCHANGED df
               ELSE /\ df' = ParseFitTable(sorted, lapMsgs)
                    /\ pc' = "parsed"
                    /\ UNCHANGED << err, status, exitCode >>
    /\ UNCHANGED << script, argc, fitExists, records, lapMsgs, hasSession, dfLaps, written >>

\* v3 line 198: parse_fit_records(ff)
ParseFitRecords ==
    /\ pc = "opened"
    /\ script = "v3"
    /\ IF NoRecords(records)
       THEN Fail("RuntimeError") /\ UNCHANGED df
       ELSE \E sorted \in SortedOrders(records) :
               /\ df' = ParseFitRecordsTable(sorted)
               /\ pc' = "parsed"
               /\ UNCHANGED << err, status, exitCode >>
    /\ UNCHANGED << script, argc, fitExists, records, lapMsgs, hasSession, dfLaps, written >>

\* v2 lines 365-368, v3 line 199: df.to_csv(records path)
WriteRecordsCsv ==
    /\ pc = "parsed"
    /\ written' = written \cup {"records_csv"}
    /\ pc' = "records_written"
    /\ UNCHANGED << script, argc, fitExists, records, lapMsgs, hasSession, df, dfLaps,
                    status, exitCode, err >>

\* v2 line 371: export_lap_csv(ff, path), which writes nothing when there is no lap
ExportLapCsv ==
    /\ pc = "records_written"
    /\ script = "v2"
    /\ dfLaps' = ExportLapTable(lapMsgs)
    /\ written' = IF lapMsgs = << >> THEN written ELSE written \cup {"laps_csv"}
    /\ pc' = "exported"
    /\ UNCHANGED << script, argc, fitExists, records, lapMsgs, hasSession, df,
                    status, exitCode, err >>

\* v3 lines 202-204: extract_activity_summary(ff), then the summary is written
WriteSummary ==
    /\ pc = "records_written"
    /\ script = "v3"
    /\ IF hasSession
       THEN /\ written' = written \cup {"summary_json"}
            /\ pc' = "exported"
            /\ UNCHANGED << err, status, exitCode >>
       ELSE Fail("RuntimeError") /\ UNCHANGED written
    /\ UNCHANGED << script, argc, fitExists, records, lapMsgs, hasSession, df, dfLaps >>

\* v2 lines 374-380, v3 lines 207-213: the success result, then the normal exit
ReportSuccess ==
    /\ pc = "exported"
    /\ status' = "success"
    /\ exitCode' = 0
    /\ pc' = "exited"
    /\ UNCHANGED << script, argc, fitExists, records, lapMsgs, hasSession, df, dfLaps,
                    written, err >>

Next ==
    \/ Usage
    \/ OpenFit
    \/ ParseFit
    \/ ParseFitRecords
    \/ WriteRecordsCsv
    \/ ExportLapCsv
    \/ WriteSummary
    \/ ReportSuccess

Spec == Init /\ [][Next]_vars

----------------------------------------------------------------------------
(* Claims about the whole run, under Spec.                                 *)

\* C9: with zero sample records the run fails with the no-data error: main
\* prints a result with status error, exits with a non-zero code, and no output
\* file (records CSV, laps CSV, summary) has been written during the run.
C9_NoRecordsFails ==
    (records = << >> /\ argc >= 3 /\ fitExists) =>
        /\ written = {}
        /\ status # "success"
        /\ pc \in {"start", "opened", "exited"}
        /\ pc = "exited" =>
              status = "error" /\ exitCode # 0 /\ exitCode # Absent /\ err = "RuntimeError"

C9_Witness ==
    /\ records = << >> /\ argc >= 3 /\ fitExists
    /\ script = "v3" /\ hasSession
    /\ pc = "exited"
    /\ status = "error" /\ exitCode = 1 /\ err = "RuntimeError"
    /\ written = {}

\* C10: the lap_nature of every sample is the lap_nature of its owning lap: each
\* sample's lap_nature in the table of parse_fit equals the lap_nature of the row
\* with the same lap_number in the table of export_lap_csv, for any arrival order
\* of the laps and any laps lacking a start_time.
C10_SampleNatureIsLapNature ==
    (script = "v2" /\ pc \in {"exported", "exited"}) =>
        \A i \in 1..Len(df) : \A k \in 1..Len(dfLaps) :
            (dfLaps[k].lap_nature # NoColumn /\ dfLaps[k].lap_number = df[i].lap_number) =>
                df[i].lap_nature = dfLaps[k].lap_nature

----------------------------------------------------------------------------
(* Claims about laps whose avg_speed cannot be parsed, under SpecClassify. *)

NaNLaps(s) == {i \in 1..Len(s) : s[i] = NaN}

\* lap i lies in [first, last] of the laps above 17.05 km/h
InWorkBlock(s, i) ==
    FastLaps(s) # {} /\ SetMin(FastLaps(s)) <= i /\ i <= SetMax(FastLaps(s))

\* C11 as stated: a lap whose avg_speed_kmh is NaN never makes classification
\* raise, matches no threshold test, and ends Unknown unless the default fill
\* catches it (its position lies in [first, last] of the Intensity laps, where it
\* becomes Recovery), for every lap sequence, also without any Intensity lap.
C11_NaNLapUnknownOrFilled ==
    (pc = "classified" /\ HasSpeedColumn(dfLaps)) =>
        \A i \in NaNLaps(Speeds(dfLaps)) :
            dfLaps[i].lap_nature =
                IF InWorkBlock(Speeds(dfLaps), i) THEN "Recovery" ELSE "Unknown"

\* C11 as amended: the same, except that in a sequence without any Intensity lap
\* the NaN lap becomes Warm-up like every other lap.
C11_NaNLapAmended ==
    (pc = "classified" /\ HasSpeedColumn(dfLaps)) =>
        \A i \in NaNLaps(Speeds(dfLaps)) :
            dfLaps[i].lap_nature =
                IF FastLaps(Speeds(dfLaps)) = {} THEN "Warm-up"
                ELSE IF InWorkBlock(Speeds(dfLaps), i) THEN "Recovery"
                ELSE "Unknown"

C11_Witness ==
    /\ pc = "classified"
    /\ \E i \in 2..(Len(dfLaps) - 1) :
          /\ dfLaps[i].avg_speed_kmh = NaN /\ dfLaps[i].lap_nature = "Recovery"
          /\ dfLaps[i - 1].lap_nature = "Intensity"
          /\ dfLaps[i + 1].lap_nature = "Intensity"
    /\ dfLaps[Len(dfLaps)].avg_speed_kmh = NaN
    /\ dfLaps[Len(dfLaps)].lap_nature = "Unknown"
    /\ dfLaps[Len(dfLaps) - 1].lap_nature = "Intensity"

----------------------------------------------------------------------------
(* Further claims about the whole run, under Spec.                         *)

NoDistanceAtAll(recs) == \A i \in 1..Len(recs) : recs[i].distance = Absent

\* C12: when distance is absent from every sample the moving-time stage is
\* skipped: parse_fit and parse_fit_records complete without error and return a
\* table without moving_elapsed_time_s, the other columns (elapsed_time_s, and
\* lap_number and lap_nature in parse_fit) still produced.
C12_NoDistanceSkipsMovingTime ==
    (records # << >> /\ NoDistanceAtAll(records) /\ pc \notin {"start", "opened"}) =>
        /\ err # "KeyError"
        /\ Len(df) = Len(records)
        /\ HasElapsedColumn(df)
        /\ ~HasMovingColumn(df)
        /\ script = "v2" =>
              \A i \in 1..Len(df) :
                  df[i].lap_number >= 1 /\ df[i].lap_nature \in LapNature

----------------------------------------------------------------------------
(* The Recovery step against a left-to-right pass, under SpecClassify.     *)

\* the labels after the Intensity, Warm-up and Cool-down steps, when some lap is
\* Intensity
BeforeRecovery(s) ==
    LET n1 == MarkIntensity(s, AllUnknown(s))
    IN  MarkCoolDown(s, MarkWarmUp(s, n1, SetMin(IntensityIdx(n1))), SetMax(IntensityIdx(n1)))

\* the left-to-right pass over laps 1..i: lap j becomes Recovery when its speed
\* is below 8.65 and the label lap j - 1 carries at that moment is Intensity
RECURSIVE SequentialRecovery(_, _, _)
SequentialRecovery(s, nat, i) ==
    IF i = 0 THEN nat
    ELSE LET done == SequentialRecovery(s, nat, i - 1)
         IN  IF i > 1 /\ s[i] # NaN /\ s[i] < 865 /\ done[i - 1] = "Intensity"
             THEN [done EXCEPT ![i] = "Recovery"]
             ELSE done

\* C13: the Recovery step, which reads every lap's predecessor label from one
\* snapshot taken after the Intensity, Warm-up and Cool-down steps, gives for
\* every lap sequence the same labels as a left-to-right pass that carries the
\* previous lap's label as updated during the pass.
C13_SnapshotEqualsSequentialPass ==
    (pc = "classified" /\ HasSpeedColumn(dfLaps) /\ FastLaps(Speeds(dfLaps)) # {}) =>
        Natures(dfLaps) =
            FillRemaining(
                SequentialRecovery(Speeds(dfLaps), BeforeRecovery(Speeds(dfLaps)), Len(dfLaps)),
                SetMin(FastLaps(Speeds(dfLaps))), SetMax(FastLaps(Speeds(dfLaps))))

C13_Witness ==
    /\ pc = "classified"
    /\ \E i \in 2..(Len(dfLaps) - 1) :
          /\ i > SetMax(FastLaps(Speeds(dfLaps)) \cup {0})
          /\ dfLaps[i - 1].lap_nature = "Intensity"
          /\ dfLaps[i].avg_speed_kmh = 500 /\ dfLaps[i].lap_nature = "Recovery"
          /\ dfLaps[i + 1].avg_speed_kmh = 500 /\ dfLaps[i + 1].lap_nature = "Unknown"


\* C14: in every run of main of extract_fit_file.py a result with status success
\* is reported only after every output file it names has been written: the file
\* at records_csv_path and the file at laps_csv_path were both written during
\* that run, for every input activity (also one with no lap messages).
C14_SuccessAfterFilesWritten ==
    (script = "v2" /\ status = "success") =>
        {"records_csv", "laps_csv"} \subseteq written

====
